---- MODULE Spec2Model ----
(***************************************************************************)
(* Model of the WebSocket relay of src-tauri/src/websocket_server.rs:      *)
(* the accept loop of WebSocketServer::start, handle_connection with its   *)
(* incoming and outgoing tasks, and the facade calls broadcast_message,    *)
(* send_to_extension and get_connected_extensions.                         *)
(***************************************************************************)
EXTENDS Integers, Sequences, FiniteSets, TLC

\* ------------------------------------------------------------------ bounds
\* connection attempts the listener sees
MaxConns == 2
\* events of the environment, all together: calls of the host (start,
\* send_to_extension, broadcast_message), connection attempts, frames the
\* clients send and transport resets
MaxEvents == 6
\* capacity of a connection's outbound channel (broadcast::channel(50)),
\* scaled down; the overflow rule is the channel's
ChanCap == 2

Conns == 1..MaxConns
\* the ids Uuid::new_v4 can hand out, and one id that no connection ever gets
Uuids == 1..MaxConns
UnknownId == 0
Ids == Uuids \cup {UnknownId}
NoId == -1

\* ------------------------------------------------------------- wire format
\* A text payload is a JSON object, given by the keys it holds and the value
\* of its type tag, or garbage (no keys).
StructKeys == {"message_type", "data", "timestamp", "source"}
RequiredKeys == {"message_type", "data", "timestamp"}
WireKeys == {"type", "data", "timestamp"}

TextFrame(keys, mt, data) == [op |-> "Text", keys |-> keys, mt |-> mt, data |-> data]
CloseFrame == [op |-> "Close", keys |-> {}, mt |-> "", data |-> 0]

\* what a client may send: a frame in the struct's own field names, the
\* frame of the wire protocol, garbage, and a close frame
StructHandshake == TextFrame(RequiredKeys, "HANDSHAKE", 0)
WireHandshake == TextFrame(WireKeys, "HANDSHAKE", 0)
Garbage == TextFrame({}, "", 0)
\* the message types handle_connection has a match arm for, and one it has not
Recognized == {"HANDSHAKE", "CODE_SNIPPET_CAPTURED", "ANALYZE_CODE_REQUEST", "SEND_TO_DESKTOP"}
MessageTypes == Recognized \cup {"TAB_CLOSED"}
StructFrames == {TextFrame(RequiredKeys, mt, 0) : mt \in MessageTypes}
ClientFrames == StructFrames \cup {WireHandshake, Garbage, CloseFrame}

\* WebSocketMessage: the derive(Deserialize) of the struct needs every field
\* that is not an Option under the field's own name; unknown keys are ignored
\* and a missing source is None.
WebSocketMessage(mt, data, source) == [message_type |-> mt, data |-> data, source |-> source]
CanDecode(text) == RequiredKeys \subseteq text.keys
from_str(text) ==
    WebSocketMessage(text.mt, text.data,
                     IF "source" \in text.keys THEN "client" ELSE "none")
\* derive(Serialize): every field under its own name
to_string(msg) == TextFrame(StructKeys, msg.message_type, msg.data)

VARIABLES
    listener,        \* "unbound", "accepting" (accept loop spawned), "stopped" (loop ended)
    nevents,         \* events of the environment so far
    start_result,    \* what the last call of start returned
    hpc,             \* handle_connection of each connection: where it is
    rpc,             \* incoming_task: "none", "run", "done"
    wpc,             \* outgoing_task: "none", "run", "done"
    connection_id,   \* the id handle_connection generated
    connections,     \* the registry: id -> connection whose sender it holds
    chan,            \* per connection channel: buffered values, lagged flag, values sent
    transport,       \* frames written to each client, in order
    tstate,          \* "open", or "down": reset by the peer, or its close frame read
    nread,           \* frames incoming_task has read from each client
    message_sender,  \* values handed to the global message_sender.send, per sender
    lock_holder,     \* the task that holds the lock of connections, or "free"
    removes,         \* times conns.remove ran for each connection
    bcast_live       \* connections that were connected at the last broadcast_message

vars == <<listener, nevents, start_result, hpc, rpc, wpc, connection_id,
          connections, chan, transport, tstate, nread, message_sender,
          lock_holder, removes, bcast_live>>

hostVars == <<listener, start_result>>
handlerVars == <<hpc, rpc, wpc, connection_id>>
histVars == <<removes, bcast_live>>

\* the host's own sender on the global channel
Host == 0

Init ==
    /\ listener = "unbound"
    /\ nevents = 0
    /\ start_result = "none"
    /\ hpc = [c \in Conns |-> "none"]
    /\ rpc = [c \in Conns |-> "none"]
    /\ wpc = [c \in Conns |-> "none"]
    /\ connection_id = [c \in Conns |-> NoId]
    /\ connections = << >>
    /\ chan = [c \in Conns |-> [buf |-> << >>, lagged |-> FALSE, pos |-> 0]]
    /\ transport = [c \in Conns |-> << >>]
    /\ tstate = [c \in Conns |-> "open"]
    /\ nread = [c \in Conns |-> 0]
    /\ message_sender = [s \in Conns \cup {Host} |-> << >>]
    /\ lock_holder = "free"
    /\ removes = [c \in Conns |-> 0]
    /\ bcast_live = {}

\* every event of the environment is counted
Event == nevents < MaxEvents /\ nevents' = nevents + 1

\* connections.lock().await ... the end of the block: no .await is between the
\* two, so the guard is gone at the next point where the task can wait
GuardKept(task) == task
GuardDropped(task) == "free"

\* --------------------------------------------------------------- channels
\* tokio broadcast channel of one connection.  Its senders are conn_sender in
\* handle_connection's frame and the clone stored in the registry; its one
\* receiver is conn_receiver, moved into outgoing_task.
SendersAlive(c) ==
    \/ hpc[c] \in {"welcome", "select", "cleanup"}
    \/ connection_id[c] \in DOMAIN connections
ReceiverFromSpawn(c) == wpc[c] = "run"
ReceiverAlive(c) ==
    \/ hpc[c] = "welcome"
    \/ wpc[c] = "run"

\* Sender::send: an error and nothing stored when no receiver is left; on a
\* full buffer the oldest value is overwritten and the receiver has lagged.
ChanSend(ch, m, rx) ==
    IF ~rx THEN ch
    ELSE IF Len(ch.buf) < ChanCap
         THEN [ch EXCEPT !.buf = Append(@, m), !.pos = @ + 1]
         ELSE [buf |-> Append(Tail(ch.buf), m), lagged |-> TRUE, pos |-> ch.pos + 1]

\* Receiver::recv: which value comes out next
RecvNewest(buf) == Len(buf)
RecvIndex(buf) == 1
RemoveAt(buf, i) == SubSeq(buf, 1, i - 1) \o SubSeq(buf, i + 1, Len(buf))

\* ------------------------------------------------------------------ start
\* WebSocketServer::start: bind, then spawn the accept loop and return.
\* The bind fails when the address is in use by a running accept loop, and
\* may fail for reasons outside the program.
\* bind(&addr).await? returns the error before anything is spawned
StartKillsLoop(l, bind_ok) == IF bind_ok THEN "accepting" ELSE "stopped"
ListenerAfterStart(l, bind_ok) == IF bind_ok THEN "accepting" ELSE l
start ==
    /\ Event
    /\ \E bind_ok \in BOOLEAN :
         /\ (listener = "accepting") => ~bind_ok
         /\ listener' = ListenerAfterStart(listener, bind_ok)
         /\ start_result' = IF bind_ok THEN "ok" ELSE "err"
    /\ UNCHANGED lock_holder
    /\ UNCHANGED <<handlerVars, connections, chan, transport, tstate, nread,
                   message_sender, histVars>>

\* ------------------------------------------------------ handle_connection
\* Uuid::new_v4: an id no connection has had
SessionCountId == Cardinality(DOMAIN connections) + 1
Uuid_new_v4 == CHOOSE u \in Uuids : \A c \in Conns : connection_id[c] # u

\* conns.insert(connection_id, ExtensionConnection{.., sender})
InsertConn(conns, id, c) ==
    [k \in DOMAIN conns \cup {id} |-> IF k = id THEN c ELSE conns[k]]

\* One turn of the accept loop whose accept returns Ok: handle_connection is
\* spawned for the stream and runs up to the insert under the lock
\* (accept_async(stream).await?, split, the id, the channel, the insert).
\* A failed WebSocket handshake returns before anything is registered.
NextSlot == CHOOSE c \in Conns : hpc[c] = "none" /\ \A d \in Conns : d < c => hpc[d] # "none"
accept_ok ==
    /\ listener = "accepting"
    /\ \E c \in Conns : hpc[c] = "none"
    /\ Event
    /\ \E handshake_ok \in BOOLEAN :
         IF handshake_ok
         THEN /\ lock_holder = "free"
              /\ lock_holder' = GuardDropped("handle_connection")
              /\ hpc' = [hpc EXCEPT ![NextSlot] = "welcome"]
              /\ connection_id' = [connection_id EXCEPT ![NextSlot] = Uuid_new_v4]
              /\ connections' = InsertConn(connections, Uuid_new_v4, NextSlot)
         ELSE /\ hpc' = [hpc EXCEPT ![NextSlot] = "rejected"]
              /\ UNCHANGED <<connection_id, connections, lock_holder>>
    /\ UNCHANGED <<hostVars, rpc, wpc, chan, transport, tstate, nread,
                   message_sender, histVars>>

\* what the loop does when accept returns Err: the while let ends
AfterAcceptError == "stopped"
accept_err ==
    /\ listener = "accepting"
    /\ Event
    /\ listener' = AfterAcceptError
    /\ UNCHANGED lock_holder
    /\ UNCHANGED <<start_result, handlerVars, connections, chan, transport,
                   tstate, nread, message_sender, histVars>>

\* the frames handle_connection itself writes before it spawns the tasks
WelcomeMsg(id) == WebSocketMessage("WELCOME", id, "desktop")
WelcomeFrames(id) == << to_string(WelcomeMsg(id)) >>

\* ws_sender.send(welcome).await?  then the two tokio::spawn
welcome(c) ==
    /\ hpc[c] = "welcome"
    /\ IF tstate[c] = "open"
       THEN /\ transport' = [transport EXCEPT ![c] = @ \o WelcomeFrames(connection_id[c])]
            /\ hpc' = [hpc EXCEPT ![c] = "select"]
            /\ rpc' = [rpc EXCEPT ![c] = "run"]
            /\ wpc' = [wpc EXCEPT ![c] = "run"]
       ELSE /\ hpc' = [hpc EXCEPT ![c] = "failed"]
            /\ UNCHANGED <<transport, rpc, wpc>>
    /\ UNCHANGED lock_holder
    /\ UNCHANGED <<nevents, hostVars, connection_id, connections, chan, tstate, nread,
                   message_sender, histVars>>

\* incoming_task: one turn of while let Some(msg) = ws_receiver.next().await.
\* The frame read is the next one the client sent; a reset transport yields
\* Err.  A published value is logged with the index of its frame.
BreaksOnUndecodable(frame) == frame.op = "Close" \/ ~CanDecode(frame)
BreaksLoop(frame) == frame.op = "Close"
\* every arm of the match falls through to global_sender_clone.send
PublishesRecognized(frame) ==
    frame.op = "Text" /\ CanDecode(frame) /\ frame.mt \in Recognized
Publishes(frame) == frame.op = "Text" /\ CanDecode(frame)
incoming_task(c, frame) ==
    /\ rpc[c] = "run"
    /\ IF tstate[c] = "down"
       THEN /\ rpc' = [rpc EXCEPT ![c] = "done"]
            /\ UNCHANGED <<message_sender, tstate, nread, nevents>>
       ELSE /\ Event
            /\ nread' = [nread EXCEPT ![c] = @ + 1]
            /\ message_sender' =
                  IF Publishes(frame)
                  THEN [message_sender EXCEPT
                          ![c] = Append(@, [msg |-> from_str(frame), at |-> nread[c] + 1])]
                  ELSE message_sender
            /\ rpc' = [rpc EXCEPT ![c] = IF BreaksLoop(frame) THEN "done" ELSE "run"]
            /\ tstate' = [tstate EXCEPT ![c] = IF frame.op = "Close" THEN "down" ELSE @]
    /\ UNCHANGED lock_holder
    /\ UNCHANGED <<hostVars, hpc, wpc, connection_id, connections, chan, transport,
                   histVars>>

\* outgoing_task runs from its tokio::spawn, after the welcome is written
OutgoingSpawnedEarly(c) == wpc[c] = "run" \/ (wpc[c] = "none" /\ hpc[c] = "welcome")
OutgoingSpawned(c) == wpc[c] = "run"

\* outgoing_task: one turn of while let Ok(message) = conn_receiver.recv().await
outgoing_task(c) ==
    /\ OutgoingSpawned(c)
    /\ IF chan[c].lagged
       THEN \* Err(Lagged): the while let ends
            /\ wpc' = [wpc EXCEPT ![c] = "done"]
            /\ UNCHANGED <<chan, transport>>
       ELSE IF chan[c].buf # << >>
       THEN LET i == RecvIndex(chan[c].buf) IN
            /\ chan' = [chan EXCEPT ![c].buf = RemoveAt(@, i)]
            /\ IF tstate[c] = "open"
               THEN /\ transport' = [transport EXCEPT ![c] = Append(@, to_string(chan[c].buf[i]))]
                    /\ UNCHANGED wpc
               ELSE /\ wpc' = [wpc EXCEPT ![c] = "done"]
                    /\ UNCHANGED transport
       ELSE \* Err(Closed) once every sender is gone; otherwise recv waits
            /\ ~SendersAlive(c)
            /\ wpc' = [wpc EXCEPT ![c] = "done"]
            /\ UNCHANGED <<chan, transport>>
    /\ UNCHANGED lock_holder
    /\ UNCHANGED <<nevents, hostVars, hpc, rpc, connection_id, connections, tstate, nread,
                   message_sender, histVars>>

\* tokio::select! over the two join handles
JoinBoth(r, w) == r = "done" /\ w = "done"
SelectReady(r, w) == r = "done" \/ w = "done"
select(c) ==
    /\ hpc[c] = "select"
    /\ SelectReady(rpc[c], wpc[c])
    /\ hpc' = [hpc EXCEPT ![c] = "cleanup"]
    /\ UNCHANGED lock_holder
    /\ UNCHANGED <<nevents, hostVars, rpc, wpc, connection_id, connections, chan, transport,
                   tstate, nread, message_sender, histVars>>

\* conns.remove(&connection_id), then return Ok(()): the join handles are
\* dropped, which leaves the task that is still running detached
ClearConns(conns, id) == [k \in {} |-> conns[k]]
KeepConn(conns, id) == conns
RemoveConn(conns, id) == [k \in DOMAIN conns \ {id} |-> conns[k]]
cleanup(c) ==
    /\ hpc[c] = "cleanup"
    /\ lock_holder = "free"
    /\ lock_holder' = GuardDropped("handle_connection")
    /\ connections' = RemoveConn(connections, connection_id[c])
    /\ removes' = [removes EXCEPT ![c] = @ + 1]
    /\ hpc' = [hpc EXCEPT ![c] = "done"]
    /\ UNCHANGED <<nevents, hostVars, rpc, wpc, connection_id, chan, transport, tstate, nread,
                   message_sender, bcast_live>>

\* ----------------------------------------------------------------- facade
HostMsg(n) == WebSocketMessage("PING", n, "desktop")
Connected(c) ==
    /\ connection_id[c] \in DOMAIN connections
    /\ rpc[c] = "run"
    /\ wpc[c] = "run"

\* the connections whose channel a value sent on message_sender reaches:
\* new() dropped the only receiver and nothing subscribes to the channel
BusReceivers == {}

\* broadcast_message: let _ = self.message_sender.send(message); Ok(())
broadcast_message ==
    /\ Event
    /\ LET m == HostMsg(100 + Len(message_sender[Host]) + 1) IN
       /\ message_sender' = [message_sender EXCEPT ![Host] = Append(@, [msg |-> m, at |-> 0])]
       /\ chan' = [c \in Conns |->
                     IF c \in BusReceivers
                     THEN ChanSend(chan[c], m, ReceiverAlive(c))
                     ELSE chan[c]]
    /\ bcast_live' = {c \in Conns : Connected(c)}
    /\ UNCHANGED lock_holder
    /\ UNCHANGED <<hostVars, handlerVars, connections, transport, tstate, nread,
                   removes>>

\* send_to_extension: connections.get(extension_id), then connection.sender.send.
\* The host tags the messages it sends to one session 1, 2, 3, ...
LookupOrAll(conns, id) ==
    IF id \in DOMAIN conns THEN {conns[id]} ELSE {conns[k] : k \in DOMAIN conns}
LookupEvery(conns, id) ==
    IF id \in DOMAIN conns THEN {conns[k] : k \in DOMAIN conns} ELSE {}
LookupTargets(conns, id) == IF id \in DOMAIN conns THEN {conns[id]} ELSE {}
send_to_extension(id) ==
    /\ Event
    /\ lock_holder = "free"
    /\ lock_holder' = GuardDropped("send_to_extension")
    /\ LET to == LookupTargets(connections, id) IN
       chan' = [c \in Conns |->
                  IF c \in to
                  THEN ChanSend(chan[c], HostMsg(chan[c].pos + 1), ReceiverAlive(c))
                  ELSE chan[c]]
    /\ UNCHANGED <<hostVars, handlerVars, connections, transport, tstate, nread,
                   message_sender, histVars>>

get_connected_extensions == DOMAIN connections

\* start_websocket_server: the port the host binds the listener to
ws_port == 3010
\* get_websocket_status: the command returns the same value on every call
get_websocket_status ==
    [status |-> "running", port |-> 3001, connected_extensions |-> 0]

\* ---------------------------------------------------------------- clients
\* the peer resets the transport of a connection the server still holds
peer_reset(c) ==
    /\ hpc[c] \notin {"none", "rejected"}
    /\ tstate[c] = "open"
    /\ Event
    /\ tstate' = [tstate EXCEPT ![c] = "down"]
    /\ UNCHANGED lock_holder
    /\ UNCHANGED <<hostVars, handlerVars, connections, chan, transport, nread,
                   message_sender, histVars>>

Next ==
    \/ start
    \/ accept_ok
    \/ accept_err
    \/ \E c \in Conns : welcome(c)
    \/ \E c \in Conns, f \in ClientFrames : incoming_task(c, f)
    \/ \E c \in Conns : outgoing_task(c)
    \/ \E c \in Conns : select(c)
    \/ \E c \in Conns : cleanup(c)
    \/ broadcast_message
    \/ \E id \in Ids : send_to_extension(id)
    \/ \E c \in Conns : peer_reset(c)

Spec == Init /\ [][Next]_vars

\* The tokio scheduler runs every spawned task that can run: the steps of
\* handle_connection and of its two tasks that wait for nothing from the
\* environment are taken once they stay possible.  Reading a frame waits for
\* the client and is not forced; reading the error of a transport that is
\* down is.
incoming_err(c) == tstate[c] = "down" /\ incoming_task(c, CloseFrame)
Fairness ==
    \A c \in Conns :
        /\ WF_vars(welcome(c))
        /\ WF_vars(incoming_err(c))
        /\ WF_vars(outgoing_task(c))
        /\ WF_vars(select(c))
        /\ WF_vars(cleanup(c))
FairSpec == Spec /\ Fairness


\* ------------------------------------------------------------------ claims
Registered(c) == connection_id[c] \in get_connected_extensions
\* the frames of transport t that carry message m
Carrying(t, m) == {i \in 1..Len(t) : t[i] = to_string(m)}
\* outgoing_task of c has nothing left to write
Idle(c) == chan[c].buf = << >> /\ ~chan[c].lagged

\* C1: when broadcast_message(m) is called while clients are connected
\* (registered, both loops running), each of them gets exactly one frame
\* carrying m, and a client that was not connected at the call gets none.
\* Stated on the final result: once the writer of a client that was connected
\* at the call, and still is, has nothing left to write, its transport holds
\* exactly one frame carrying m.
C1_BroadcastReachesConnected ==
    message_sender[Host] # << >> =>
        LET m == message_sender[Host][Len(message_sender[Host])].msg IN
        \A c \in Conns :
            /\ (c \in bcast_live /\ Connected(c) /\ tstate[c] = "open" /\ Idle(c))
                  => Cardinality(Carrying(transport[c], m)) = 1
            /\ c \notin bcast_live => Carrying(transport[c], m) = {}

\* C2: on every connection exactly one WELCOME frame is written, and it is
\* the first frame on the transport: nothing is written before it, no second
\* one after it, and once handle_connection has spawned its tasks it is there.
C2_WelcomeFirstAndOnce ==
    \A c \in Conns :
        LET t == transport[c] IN
        /\ t # << >> => t[1] = to_string(WelcomeMsg(connection_id[c]))
        /\ \A i \in 2..Len(t) : t[i].mt # "WELCOME"
        /\ hpc[c] \in {"select", "cleanup", "done"} => Len(t) >= 1
C2_Witness ==
    \E c \in Conns : Len(transport[c]) >= 2 /\ transport[c][1].mt = "WELCOME"

\* one of the two loops of c has ended
LoopEnded(c) == rpc[c] = "done" \/ wpc[c] = "done"
\* the remove of c has run at most once, and exactly when handle_connection
\* has returned from the select
RemovedOnce ==
    \A c \in Conns :
        /\ removes[c] <= 1
        /\ hpc[c] = "done" <=> removes[c] = 1
        /\ removes[c] = 1 => (LoopEnded(c) /\ ~Registered(c))

\* C3: handle_connection removes its session exactly once, whichever loop
\* ends first and also when both have ended before the select is polled: the
\* remove never runs twice, it has run when handle_connection has returned
\* from the select, and once a loop has ended it does run.
C3_RemovedExactlyOnce ==
    /\ []RemovedOnce
    /\ \A c \in Conns : LoopEnded(c) ~> (removes[c] = 1)
C3_Witness ==
    \E c \in Conns : rpc[c] = "done" /\ wpc[c] = "done" /\ removes[c] = 1

\* the transport of a client whose loops were started is down
PeerGone(c) == tstate[c] = "down" /\ hpc[c] \in {"select", "cleanup", "done"}

\* C4: when the transport of a client whose loops were started is reset or
\* closed by the peer, its id eventually is absent from
\* get_connected_extensions and stays absent.
C4_DisconnectDeregisters ==
    \A c \in Conns : PeerGone(c) ~> [](~Registered(c))
C4_Witness ==
    \E c \in Conns : PeerGone(c) /\ hpc[c] = "done" /\ ~Registered(c)

\* C5: overflowing a session's outbound channel only drops messages: the
\* writer keeps running and the id stays registered while the peer is there.
C5_OverflowKeepsSession ==
    \A c \in Conns :
        (chan[c].lagged /\ tstate[c] = "open" /\ hpc[c] \notin {"none", "rejected"})
            => (wpc[c] \in {"none", "run"} /\ Registered(c))

\* C6: the frames written to one transport are in the order the messages
\* were enqueued to that session (the host tags them 1, 2, 3, ... in that
\* order).
C6_Fifo ==
    \A c \in Conns :
        \A i, j \in 2..Len(transport[c]) :
            i < j => transport[c][i].data < transport[c][j].data
C6_Witness ==
    \E c \in Conns : Len(transport[c]) >= 3

\* frames of an open transport that were read and not published
Discarded(c) == nread[c] - Len(message_sender[c])

\* C7: reading a text frame that does not decode leaves the reader running,
\* the transport open and the registry as it is, and a frame that decodes,
\* read after a frame was discarded, is still published on message_sender.
C7_MalformedIsSkipped ==
    [][\A c \in Conns, f \in ClientFrames :
          (tstate[c] = "open" /\ f.op = "Text" /\ incoming_task(c, f)) =>
              /\ ~CanDecode(f) =>
                    /\ rpc'[c] = "run"
                    /\ tstate'[c] = "open"
                    /\ connections' = connections
                    /\ hpc' = hpc
              /\ (CanDecode(f) /\ Discarded(c) > 0) =>
                    /\ rpc'[c] = "run"
                    /\ message_sender'[c] =
                          Append(message_sender[c], [msg |-> from_str(f), at |-> nread[c] + 1])
      ]_vars
C7_Witness ==
    \E c \in Conns :
        /\ rpc[c] = "run" /\ Registered(c) /\ tstate[c] = "open"
        /\ \E i \in 1..Len(message_sender[c]) : message_sender[c][i].at > i

\* C8: the frame {"type":"HANDSHAKE","data":{},"timestamp":T}, read after the
\* WELCOME was written, is decoded, leaves the connection open and is
\* published on message_sender exactly once.
C8_WireHandshakeIsPublished ==
    [][\A c \in Conns :
          (tstate[c] = "open" /\ Len(transport[c]) >= 1 /\ incoming_task(c, WireHandshake)) =>
              /\ rpc'[c] = "run"
              /\ tstate'[c] = "open"
              /\ message_sender'[c] =
                    Append(message_sender[c],
                           [msg |-> WebSocketMessage("HANDSHAKE", 0, "none"), at |-> nread[c] + 1])
      ]_vars

\* C9: send_to_extension with an id that is not in the registry, and
\* broadcast_message with an empty registry, change neither the registry nor
\* any session's channel nor any transport.
C9_NoOpCalls ==
    [][/\ \A id \in Ids :
             (id \notin DOMAIN connections /\ send_to_extension(id))
                 => UNCHANGED <<connections, chan, transport>>
       /\ (DOMAIN connections = {} /\ broadcast_message)
                 => UNCHANGED <<connections, chan, transport>>
      ]_vars
C9_Witness ==
    /\ \A c \in Conns : hpc[c] = "none"
    /\ start_result = "none"
    /\ Len(message_sender[Host]) = 1
    /\ nevents >= 2

\* C10: an error returned by accept does not end the accept loop.
C10_AcceptErrorKeepsLoop ==
    [][accept_err => listener' = "accepting"]_vars


\* C11: a call of start whose bind fails returns an error, spawns no accept
\* loop and leaves the registry, the handlers and a running accept loop as
\* they are; a second start while the loop holds the port fails; a call whose
\* bind succeeds returns success with the loop spawned, no connection awaited.
C11_StartBindError ==
    [][start =>
          /\ listener = "accepting" => start_result' = "err"
          /\ start_result' = "err" =>
                /\ listener' = listener
                /\ connections' = connections
                /\ hpc' = hpc
          /\ start_result' = "ok" =>
                /\ listener' = "accepting"
                /\ hpc' = hpc
                /\ connections' = connections
      ]_vars
C11_Witness ==
    /\ start_result = "err"
    /\ listener = "accepting"
    /\ \E c \in Conns : Registered(c)

\* the frames of transport t behind the WELCOME frame
Delivered(t) == IF t = << >> THEN << >> ELSE Tail(t)
\* C12: send_to_extension(id, m) with id in the registry puts m on the
\* outbound channel of that session only: no other session's channel and no
\* transport changes in the call, and a session's transport never carries
\* more than was put on its own channel.
C12_TargetedSendOnlyTarget ==
    /\ [][\A id \in Uuids :
            (id \in DOMAIN connections /\ send_to_extension(id)) =>
               /\ \A d \in Conns \ {connections[id]} : chan'[d] = chan[d]
               /\ ReceiverAlive(connections[id]) =>
                     chan'[connections[id]].pos = chan[connections[id]].pos + 1
               /\ transport' = transport
         ]_vars
    /\ [](\A d \in Conns :
            \A i \in 1..Len(Delivered(transport[d])) :
               \E k \in 1..chan[d].pos :
                  Delivered(transport[d])[i] = to_string(HostMsg(k)))
C12_Witness ==
    \E c \in Conns : \E d \in Conns \ {c} :
       /\ Registered(c) /\ Registered(d)
       /\ Len(transport[c]) >= 2
       /\ chan[c].pos >= 1
       /\ chan[d].pos = 0
       /\ Len(transport[d]) = 1

\* C13: no two sessions ever have the same id, an id once assigned is not
\* given to a later session, and an insert into the registry never replaces
\* the entry of another session.
C13_IdsAreUnique ==
    /\ [](\A c \in Conns : \A d \in Conns \ {c} :
            connection_id[c] # NoId => connection_id[c] # connection_id[d])
    /\ [](\A c \in Conns :
            Registered(c) => connections[connection_id[c]] = c)
    /\ [][\A id \in DOMAIN connections \cap DOMAIN connections' :
            connections'[id] = connections[id]]_vars
C13_Witness ==
    \E c \in Conns : \E d \in Conns \ {c} :
       /\ removes[c] = 1
       /\ connection_id[c] # NoId
       /\ Registered(d)
       /\ hpc[d] = "welcome"

\* C14: get_websocket_status reports the port the listener is bound to and a
\* session count equal to the number of ids in the registry, whatever starts,
\* connects and disconnects came before.
C14_StatusIsLive ==
    /\ listener = "accepting" => get_websocket_status.port = ws_port
    /\ get_websocket_status.connected_extensions = Cardinality(get_connected_extensions)

\* handle_connection of c has returned, by whichever path
Returned(c) == hpc[c] \in {"rejected", "failed", "done"}
\* C15: every id in the registry belongs to a handler that is still running:
\* once handle_connection has returned, by any path, the failure to write the
\* WELCOME message included, its id is not in the registry.
C15_RegisteredMeansRunning ==
    \A c \in Conns : Returned(c) => ~Registered(c)

\* C16: after the handler of c has removed its session, the incoming loop of
\* c publishes no further message on the bus and the outgoing loop of c
\* writes no further frame, whichever loop ended first.
C16_LoopsStopAfterRemove ==
    [][\A c \in Conns :
          hpc[c] = "done" =>
             /\ message_sender'[c] = message_sender[c]
             /\ transport'[c] = transport[c]
      ]_vars

\* the messages connection c has published on the bus
Published(c) == {message_sender[c][i].msg : i \in 1..Len(message_sender[c])}
\* C17: every inbound frame that decodes is published exactly once, whether
\* its type is HANDSHAKE, CODE_SNIPPET_CAPTURED, ANALYZE_CODE_REQUEST,
\* SEND_TO_DESKTOP or one the match does not know, and the published message
\* has the type and the payload of the frame.
C17_DecodedIsPublishedOnce ==
    [][\A c \in Conns : \A f \in ClientFrames :
          (/\ tstate[c] = "open"
           /\ f.op = "Text"
           /\ CanDecode(f)
           /\ incoming_task(c, f)) =>
             /\ Len(message_sender'[c]) = Len(message_sender[c]) + 1
             /\ SubSeq(message_sender'[c], 1, Len(message_sender[c])) = message_sender[c]
             /\ message_sender'[c][Len(message_sender'[c])].msg.message_type = f.mt
             /\ message_sender'[c][Len(message_sender'[c])].msg.data = f.data
             /\ \A d \in Conns \ {c} : message_sender'[d] = message_sender[d]
      ]_vars
C17_Witness ==
    \E c \in Conns :
       /\ \E m \in Published(c) : m.message_type \in Recognized \ {"HANDSHAKE"}
       /\ \E m \in Published(c) : m.message_type \notin Recognized
       /\ Len(message_sender[c]) = 2
       /\ nread[c] = 2

\* a step of the handler of c or of its peer
HandlerStep(c) ==
    \/ welcome(c)
    \/ \E frame \in ClientFrames : incoming_task(c, frame)
    \/ outgoing_task(c)
    \/ select(c)
    \/ cleanup(c)
    \/ peer_reset(c)
\* C18: a failure on one connection (peer close, read or write error,
\* malformed frame, channel overflow) and its teardown change that connection
\* only: the registry entry, the outbound channel and the transport of every
\* other session stay as they are and the accept loop keeps accepting.
C18_FailureIsLocal ==
    [][\A c \in Conns :
          HandlerStep(c) =>
             /\ listener' = listener
             /\ \A d \in Conns \ {c} :
                   /\ chan'[d] = chan[d]
                   /\ transport'[d] = transport[d]
                   /\ tstate'[d] = tstate[d]
                   /\ hpc'[d] = hpc[d] /\ rpc'[d] = rpc[d] /\ wpc'[d] = wpc[d]
                   /\ Registered(d) =>
                         /\ connection_id[d] \in DOMAIN connections'
                         /\ connections'[connection_id[d]] = d
      ]_vars
C18_Witness ==
    \E c \in Conns : \E d \in Conns \ {c} :
       /\ hpc[c] = "done"
       /\ removes[c] = 1
       /\ Connected(d)
       /\ chan[d].buf # << >>
       /\ listener = "accepting"

\* message number k of the host is waiting in the channel of c
Buffered(c, k) == \E i \in 1..Len(chan[c].buf) : chan[c].buf[i] = HostMsg(k)
\* message number k of the host is on the transport of c, behind WELCOME
Written(c, k) ==
    /\ Len(transport[c]) >= 2
    /\ transport[c][1] = to_string(WelcomeMsg(connection_id[c]))
    /\ \E j \in 2..Len(transport[c]) : transport[c][j] = to_string(HostMsg(k))
\* C19: the session is inserted before WELCOME is written, and a
\* send_to_extension that comes after the insert and before outgoing_task
\* runs is not lost: it is buffered in the channel, stays there until it is
\* written to the transport behind WELCOME, and is written in the end, unless
\* the connection goes down or the channel overflows.
C19_EarlySendIsBuffered ==
    /\ [](\A c \in Conns :
            transport[c] # << >> => (Registered(c) \/ removes[c] >= 1))
    /\ [][\A id \in Uuids :
            (/\ id \in DOMAIN connections
             /\ hpc[connections[id]] = "welcome"
             /\ Len(chan[connections[id]].buf) < ChanCap
             /\ send_to_extension(id)) =>
                chan'[connections[id]].buf =
                   Append(chan[connections[id]].buf,
                          HostMsg(chan[connections[id]].pos + 1))
         ]_vars
    /\ [](\A c \in Conns : \A k \in 1..chan[c].pos :
            \/ Buffered(c, k)
            \/ Written(c, k)
            \/ tstate[c] = "down"
            \/ chan[c].lagged)
    /\ \A c \in Conns :
          (hpc[c] = "welcome" /\ Buffered(c, 1)) ~>
             (Written(c, 1) \/ tstate[c] = "down" \/ chan[c].lagged)
C19_Witness ==
    \E c \in Conns :
       /\ hpc[c] = "welcome"
       /\ transport[c] = << >>
       /\ Registered(c)
       /\ Buffered(c, 1)
       /\ tstate[c] = "open"

====
